---- MODULE Spec2Model ----
(***************************************************************************)
(* Model of app.py, the portfolio tracker dashboard: the portfolio-store   *)
(* holdings list, the single callback update_portfolio, and the helpers    *)
(* portfolio_value_over_time, get_portfolio_table and get_portfolio_stats. *)
(*                                                                         *)
(* Representation.                                                         *)
(*   - A Python value that may be None is a sequence of length 0 or 1:     *)
(*     None is <<>> and a present value x is <<x>>.                        *)
(*   - A ticker string is a sequence of one-character strings, so that     *)
(*     str.upper() is computed character by character.                     *)
(*   - A purchase date is a string; "" is the cleared date field.          *)
(*   - A trading day of a price history is a natural number (the order of  *)
(*     the DatetimeIndex); a Close column is a function from days to       *)
(*     prices.                                                             *)
(*   - Prices are integer thousandths of a dollar, share counts are        *)
(*     integers, and every figure rounded to 2 decimals is integer cents.  *)
(***************************************************************************)
EXTENDS Integers, Sequences, FiniteSets, TLC

VARIABLES
    store,      \* dcc.Store "portfolio-store": the holdings list
    n_clicks,   \* add-button n_clicks of the last invocation (None before a click)
    ticker,     \* ticker-input value of the last invocation
    shares,     \* shares-input value of the last invocation
    date,       \* date-input value of the last invocation
    before,     \* portfolio_data as the last invocation received it
    feed,       \* what the price provider answered during the last invocation
    data,       \* the frame portfolio_value_over_time returned
    fig,        \* portfolio-graph figure
    table,      \* portfolio-table data
    stats,      \* portfolio-stats children
    loaded      \* whether the page-load invocation of the callback has run

vars == <<store, n_clicks, ticker, shares, date, before, feed, data, fig, table, stats, loaded>>

(***************************************************************************)
(* Bounds of the model.                                                    *)
(***************************************************************************)
\* Add-button clicks explored by Spec.
MaxClicks == 2
\* Holdings explored by SpecSeries.
MaxSeriesHoldings == 3
\* Holdings explored by SpecTable.
MaxTableHoldings == 2

(***************************************************************************)
(* Python values.                                                          *)
(***************************************************************************)
None == <<>>
Some(x) == <<x>>

Range(s) == {s[i] : i \in DOMAIN s}

Max(S) == CHOOSE x \in S : \A y \in S : y <= x
Min(S) == CHOOSE x \in S : \A y \in S : x <= y

\* bool(x) of an optional number: None and 0 are falsy.
TruthyNum(o) == o # None /\ o[1] # 0
\* bool(x) of an optional string held as a character sequence: None and "" are falsy.
TruthyChars(o) == o # None /\ o[1] # <<>>
\* bool(x) of an optional string held as a TLA+ string.
TruthyStr(o) == o # None /\ o[1] # ""

LowerChars == <<"a", "f", "l", "m", "p", "s", "t">>
UpperChars == <<"A", "F", "L", "M", "P", "S", "T">>

\* str.upper() on one character.
UpperChar(c) ==
    IF \E i \in DOMAIN LowerChars : LowerChars[i] = c
    THEN UpperChars[CHOOSE i \in DOMAIN LowerChars : LowerChars[i] = c]
    ELSE c

\* str.upper()
Upper(s) == [i \in DOMAIN s |-> UpperChar(s[i])]

\* round-half-to-even of n / d, for d > 0 (\div is the floor division).
RoundDiv(n, d) ==
    LET q == n \div d
        r == n - q * d
    IN  IF 2 * r < d THEN q
        ELSE IF 2 * r > d THEN q + 1
        ELSE IF q % 2 = 0 THEN q ELSE q + 1

\* round(x, 2) of a figure held in thousandths: the result in cents.
Round2(x) == RoundDiv(x, 10)

(***************************************************************************)
(* The price provider: what yf.Ticker(t).history(...) answers.             *)
(*   "throw"  the call raises                                              *)
(*   "nocols" an empty frame without columns (pd.DataFrame())              *)
(*   "empty"  an empty frame that has a Close column and no rows           *)
(*   "rows"   a frame whose Close column is `close`                        *)
(***************************************************************************)
NoRows == [d \in {} |-> 0]
Throw == [kind |-> "throw", close |-> NoRows]
NoCols == [kind |-> "nocols", close |-> NoRows]
EmptyHist == [kind |-> "empty", close |-> NoRows]
Rows(c) == [kind |-> "rows", close |-> c]

\* hist.empty
HistEmpty(h) == h.kind = "nocols" \/ DOMAIN h.close = {}

(***************************************************************************)
(* Frames: columns (names), index (days, kept sorted by the outer join)    *)
(* and values (one function from the index per column; a cell is None for  *)
(* NaN until fillna).                                                      *)
(***************************************************************************)
\* pd.DataFrame()
EmptyFrame == [columns |-> <<>>, index |-> {}, values |-> <<>>]

\* A test that looks at the columns only, as `len(data.columns) == 0` would.

FrameEmptyColsOnly(df) == df.columns = <<>>

\* DataFrame.empty: any axis of length 0.
FrameEmpty(df) == df.columns = <<>> \/ df.index = {}

\* The name of the Series history(...)['Close'], kept by the multiplication.
CloseName == <<"C", "l", "o", "s", "e">>

\* prices * float(row['Shares'])
Scale(prices, sh) == [d \in DOMAIN prices |-> prices[d] * sh]

\* value.to_frame(name)
ToFrame(value, name) ==
    [columns |-> <<name>>,
     index   |-> DOMAIN value,
     values  |-> << [d \in DOMAIN value |-> Some(value[d])] >>]

\* combined.join(value, how='outer') raises ValueError("columns overlap but no
\* suffix specified") when combined already has a column of the Series' name.
JoinRaises(combined, name) == name \in Range(combined.columns)

\* combined.join(value, how='outer') of a Series named `name`.
JoinOuter(combined, value, name) ==
    LET idx == combined.index \cup DOMAIN value
    IN  [columns |-> Append(combined.columns, name),
         index   |-> idx,
         values  |-> Append(
             [k \in DOMAIN combined.values |->
                 [d \in idx |-> IF d \in combined.index
                                THEN combined.values[k][d] ELSE None]],
             [d \in idx |-> IF d \in DOMAIN value THEN Some(value[d]) ELSE None])]

\* DataFrame.ffill(): a NaN cell takes the column's last value above it, if any.
Ffill(df) ==
    [df EXCEPT !.values =
        [k \in DOMAIN df.values |->
            [d \in df.index |->
                LET seen == {e \in df.index : e <= d /\ df.values[k][e] # None}
                IN  IF seen = {} THEN None ELSE df.values[k][Max(seen)]]]]

\* DataFrame.fillna(0); the cells are numbers from here on.
Fillna0(df) ==
    [df EXCEPT !.values =
        [k \in DOMAIN df.values |->
            [d \in df.index |->
                IF df.values[k][d] = None THEN 0 ELSE df.values[k][d][1]]]]

RECURSIVE SumCols(_, _, _)
\* The sum of row d over columns 1..k.
SumCols(df, d, k) ==
    IF k = 0 THEN 0 ELSE SumCols(df, d, k - 1) + df.values[k][d]

\* combined['Total'] = combined.sum(axis=1)
TotalName == <<"T", "o", "t", "a", "l">>
AddTotal(df) ==
    [columns |-> Append(df.columns, TotalName),
     index   |-> df.index,
     values  |-> Append(df.values,
                        [d \in df.index |-> SumCols(df, d, Len(df.values))])]

\* One iteration of the loop of portfolio_value_over_time; `combined` is None
\* or a frame.  A raise anywhere in the try block leaves combined as it was.
JoinStep(combined, stock, h) ==
    IF h.kind \in {"throw", "nocols"} THEN combined
    ELSE LET value == Scale(h.close, stock.Shares)
         IN  IF combined = None THEN Some(ToFrame(value, stock.Ticker))
             ELSE IF JoinRaises(combined[1], CloseName) THEN combined
             ELSE Some(JoinOuter(combined[1], value, CloseName))

RECURSIVE JoinLoop(_, _, _)
\* combined after the first i rows of df.iterrows().
JoinLoop(portfolio_list, fd, i) ==
    IF i = 0 THEN None
    ELSE JoinStep(JoinLoop(portfolio_list, fd, i - 1), portfolio_list[i], fd[i].series)

portfolio_value_over_time(portfolio_list, fd) ==
    IF portfolio_list = <<>> THEN EmptyFrame
    ELSE LET combined == JoinLoop(portfolio_list, fd, Len(portfolio_list))
         IN  IF combined = None THEN EmptyFrame
             ELSE AddTotal(Fillna0(Ffill(combined[1])))

(***************************************************************************)
(* get_portfolio_table                                                     *)
(***************************************************************************)
\* hist['Close'].iloc[0]
FirstClose(h) == h.close[Min(DOMAIN h.close)]
\* history(period='1d')['Close'].iloc[-1]
LastClose(h) == h.close[Max(DOMAIN h.close)]

\* Whether the try block of one iteration reaches table_data.append: the
\* history fetch does not raise, hist is not empty, and the one-day fetch
\* neither raises nor lacks the Close column (KeyError) nor is empty
\* (IndexError of .iloc[-1]).
RowBuilt(f) ==
    /\ f.hist.kind # "throw"
    /\ ~HistEmpty(f.hist)
    /\ f.cur.kind = "rows"
    /\ DOMAIN f.cur.close # {}

\* The dict as it would be with the two prices rounded before the derivation.

RowRoundedFirst(stock, f) ==
    LET sh == stock.Shares
        purchase_price == Round2(FirstClose(f.hist))
        current_price == Round2(LastClose(f.cur))
    IN  [Ticker        |-> stock.Ticker,
         Shares        |-> sh,
         PurchaseDate  |-> stock.PurchaseDate,
         PurchasePrice |-> purchase_price,
         CurrentPrice  |-> current_price,
         CurrentValue  |-> sh * current_price,
         GainLoss      |-> (current_price - purchase_price) * sh]

\* The dict appended for one holding.
Row(stock, f) ==
    LET sh == stock.Shares
        purchase_price == FirstClose(f.hist)
        current_price == LastClose(f.cur)
        current_value == sh * current_price
        gain_loss == (current_price - purchase_price) * sh
    IN  [Ticker        |-> stock.Ticker,
         Shares        |-> sh,
         PurchaseDate  |-> stock.PurchaseDate,
         PurchasePrice |-> Round2(purchase_price),
         CurrentPrice  |-> Round2(current_price),
         CurrentValue  |-> Round2(current_value),
         GainLoss      |-> Round2(gain_loss)]

RECURSIVE TableLoopAbort(_, _, _)
\* The loop as it would run with the try around the whole loop: the first
\* failure ends it.
TableLoopAbort(portfolio_list, fd, i) ==
    IF i = 0 THEN <<>>
    ELSE LET done == TableLoopAbort(portfolio_list, fd, i - 1)
         IN  IF (\A j \in 1..i : RowBuilt(fd[j]))
             THEN Append(done, Row(portfolio_list[i], fd[i]))
             ELSE done

RECURSIVE TableLoop(_, _, _)
\* table_data after the first i holdings.
TableLoop(portfolio_list, fd, i) ==
    IF i = 0 THEN <<>>
    ELSE LET done == TableLoop(portfolio_list, fd, i - 1)
         IN  IF RowBuilt(fd[i]) THEN Append(done, Row(portfolio_list[i], fd[i]))
             ELSE done

get_portfolio_table(portfolio_list, fd) ==
    TableLoop(portfolio_list, fd, Len(portfolio_list))

(***************************************************************************)
(* get_portfolio_stats                                                     *)
(***************************************************************************)
RECURSIVE SumValue(_, _)
\* sum(row.get("CurrentValue", 0) for row in table_data), over the first k rows
SumValue(table_data, k) ==
    IF k = 0 THEN 0 ELSE SumValue(table_data, k - 1) + table_data[k].CurrentValue

RECURSIVE SumInvested(_, _)
\* sum(row.get("PurchasePrice", 0) * row.get("Shares", 0) ...), over the first k rows
SumInvested(table_data, k) ==
    IF k = 0 THEN 0
    ELSE SumInvested(table_data, k - 1)
            + table_data[k].PurchasePrice * table_data[k].Shares

Abs(n) == IF n < 0 THEN 0 - n ELSE n

\* Two decimal digits.
Pad2(n) == IF n < 10 THEN "0" \o ToString(n) ELSE ToString(n)
\* Three digits of a thousands group.
Pad3(n) == IF n < 10 THEN "00" \o ToString(n)
           ELSE IF n < 100 THEN "0" \o ToString(n) ELSE ToString(n)

RECURSIVE Grouped(_)
\* The ',' of the format: digits in groups of three.
Grouped(n) ==
    IF n < 1000 THEN ToString(n)
    ELSE Grouped(n \div 1000) \o "," \o Pad3(n % 1000)

\* f"{x:,.2f}" of an amount of c cents.
Money(c) ==
    (IF c < 0 THEN "-" ELSE "") \o Grouped(Abs(c) \div 100) \o "." \o Pad2(Abs(c) % 100)

\* |total_gain / total_invested * 100| in hundredths of a percent, rounded as
\* the format rounds, for total_invested > 0.
PercentHundredths(total_gain, total_invested) ==
    LET g == Abs(total_gain) * 100
        q == g \div total_invested
        r == g % total_invested
    IN  q * 100 + RoundDiv(r * 100, total_invested)

\* The percentage as it would be with the guard `total_invested != 0`.

PercentNonzero(total_gain, total_invested) ==
    IF total_invested # 0
    THEN LET h == PercentHundredths(total_gain, Abs(total_invested))
         IN  (IF (total_gain < 0) # (total_invested < 0) THEN "-" ELSE "")
                \o ToString(h \div 100) \o "." \o Pad2(h % 100)
    ELSE "0.00"

\* f"{gain_percent:.2f}"
Percent(total_gain, total_invested) ==
    IF total_invested > 0
    THEN LET h == PercentHundredths(total_gain, total_invested)
         IN  (IF total_gain < 0 THEN "-" ELSE "")
                \o ToString(h \div 100) \o "." \o Pad2(h % 100)
    ELSE "0.00"

NoData == "No portfolio data yet."

SummaryLine(table_data) ==
    LET total_value == SumValue(table_data, Len(table_data))
        total_invested == SumInvested(table_data, Len(table_data))
        total_gain == total_value - total_invested
    IN  "Total Portfolio Value: $" \o Money(total_value)
            \o " | Total Gain/Loss: $" \o Money(total_gain)
            \o " (" \o Percent(total_gain, total_invested) \o "%)"

\* The summary as it would be without the empty-list test.

get_portfolio_stats_always(table_data) == SummaryLine(table_data)

get_portfolio_stats(table_data) ==
    IF table_data = <<>> THEN NoData ELSE SummaryLine(table_data)

(***************************************************************************)
(* The callback                                                            *)
(***************************************************************************)
\* The test as it would be with `date is not None` for the date.

valid_inputs_datenull(nc, t, s, d) ==
    TruthyNum(nc) /\ TruthyChars(t) /\ TruthyNum(s) /\ d # None

\* The test as it would be with `shares > 0` for the share count.

valid_inputs_positive(nc, t, s, d) ==
    TruthyNum(nc) /\ TruthyChars(t) /\ s # None /\ s[1] > 0 /\ TruthyStr(d)

\* if n_clicks and ticker and shares and date
valid_inputs(nc, t, s, d) ==
    TruthyNum(nc) /\ TruthyChars(t) /\ TruthyNum(s) /\ TruthyStr(d)

\* The append step as it would be if a ticker already held were not added again.

add_stock_dedupe(nc, t, s, d, portfolio_data) ==
    IF /\ valid_inputs(nc, t, s, d)
       /\ \A i \in DOMAIN portfolio_data : portfolio_data[i].Ticker # Upper(t[1])
    THEN Append(portfolio_data,
                [Ticker |-> Upper(t[1]), Shares |-> s[1], PurchaseDate |-> d[1]])
    ELSE portfolio_data

\* The append step as it would be with insert(0, ...).

add_stock_front(nc, t, s, d, portfolio_data) ==
    IF valid_inputs(nc, t, s, d)
    THEN <<[Ticker |-> Upper(t[1]), Shares |-> s[1], PurchaseDate |-> d[1]]>>
            \o portfolio_data
    ELSE portfolio_data

\* The holdings list after the append step.  portfolio_data is never None here:
\* the layout gives the store data=[] and every invocation returns a list.
add_stock(nc, t, s, d, portfolio_data) ==
    IF valid_inputs(nc, t, s, d)
    THEN Append(portfolio_data,
                [Ticker |-> Upper(t[1]), Shares |-> s[1], PurchaseDate |-> d[1]])
    ELSE portfolio_data

NoStocksTitle == "No stocks in portfolio yet."
ValueTitle == "Portfolio Value Over Time"

\* px.line(title=...) for an empty frame, px.line(data, y='Total', title=...) else.
make_fig(df) ==
    IF FrameEmpty(df)
    THEN [title |-> NoStocksTitle, x |-> {}, y |-> NoRows]
    ELSE [title |-> ValueTitle, x |-> df.index, y |-> df.values[Len(df.values)]]

\* All sequences of length n over S.
SeqsOf(S, n) == [1..n -> S]

\* One invocation of update_portfolio with the given inputs, the provider
\* answering from Feeds for each holding of the list.
update_portfolio(nc, t, s, d, Feeds) ==
    LET portfolio_data == add_stock(nc, t, s, d, store)
    IN  \E fd \in SeqsOf(Feeds, Len(portfolio_data)) :
            LET df == portfolio_value_over_time(portfolio_data, fd)
                tb == get_portfolio_table(portfolio_data, fd)
            IN  /\ store' = portfolio_data
                /\ n_clicks' = nc
                /\ ticker' = t
                /\ shares' = s
                /\ date' = d
                /\ before' = store
                /\ feed' = fd
                /\ data' = df
                /\ fig' = make_fig(df)
                /\ table' = tb
                /\ stats' = get_portfolio_stats(tb)
                /\ loaded' = TRUE

\* The layout: the store holds [] (data=[]), nothing is rendered, no callback
\* has run.
Init ==
    /\ store = <<>>
    /\ n_clicks = None
    /\ ticker = None
    /\ shares = None
    /\ date = None
    /\ before = <<>>
    /\ feed = <<>>
    /\ data = EmptyFrame
    /\ fig = [title |-> "", x |-> {}, y |-> NoRows]
    /\ table = <<>>
    /\ stats = ""
    /\ loaded = FALSE

(***************************************************************************)
(* Inputs of the explored runs.                                            *)
(***************************************************************************)
Aapl == <<"a", "a", "p", "l">>
AAPL == <<"A", "A", "P", "L">>
MSFT == <<"M", "S", "F", "T">>
Day0 == "2023-01-03"

\* Close columns the provider answers with (day |-> price in thousandths).
CloseA == (1 :> 125000) @@ (3 :> 150000)
CloseB == (2 :> 100005) @@ (3 :> 110004)
CloseC == (2 :> 50000)
\* One-day histories.
Cur150 == (3 :> 150000)
Cur110 == (3 :> 110004)

\* The add-button count the browser sends with the next click.
NextClick == Some(IF n_clicks = None THEN 1 ELSE n_clicks[1] + 1)
Clicks == IF n_clicks = None THEN 0 ELSE n_clicks[1]

\* -- Spec: every shape of form input; the provider is up or down per holding.
TickerInputs == {None, Some(<<>>), Some(Aapl), Some(MSFT)}
SharesInputs == {None, Some(0), Some(0 - 5), Some(10)}
DateInputs == {None, Some(""), Some(Day0)}
FeedUp == [series |-> Rows(CloseA), hist |-> Rows(CloseA), cur |-> Rows(Cur150)]
FeedDown == [series |-> Throw, hist |-> Throw, cur |-> Throw]
FeedGone == [series |-> EmptyHist, hist |-> EmptyHist, cur |-> EmptyHist]
Feeds == {FeedUp, FeedDown, FeedGone}

\* The callback as Dash fires it once when the page loads: no click, no values.
PageLoad ==
    /\ ~loaded
    /\ update_portfolio(None, None, None, None, Feeds)

\* A click on "Add Stock" with whatever the three fields hold.
AddStock ==
    /\ loaded
    /\ Clicks < MaxClicks
    /\ \E t \in TickerInputs, s \in SharesInputs, d \in DateInputs :
          update_portfolio(NextClick, t, s, d, Feeds)

Next == PageLoad \/ AddStock

Spec == Init /\ [][Next]_vars

\* -- SpecSeries: complete submits of one ticker; the history fetch of the
\* chart answers in every way, with histories of different days.
SeriesFeeds ==
    {[series |-> h, hist |-> Rows(CloseA), cur |-> Rows(Cur150)] :
        h \in {Throw, NoCols, EmptyHist, Rows(CloseA), Rows(CloseB), Rows(CloseC)}}

SeriesPageLoad ==
    /\ ~loaded
    /\ update_portfolio(None, None, None, None, SeriesFeeds)

SeriesAddStock ==
    /\ loaded
    /\ Len(store) < MaxSeriesHoldings
    /\ update_portfolio(NextClick, Some(Aapl), Some(10), Some(Day0), SeriesFeeds)

NextSeries == SeriesPageLoad \/ SeriesAddStock

SpecSeries == Init /\ [][NextSeries]_vars

\* -- SpecTable: complete submits; the two fetches of the table answer in every
\* way, with prices of two and of three decimals.
TableFeeds ==
    {[series |-> Throw, hist |-> Throw, cur |-> Rows(Cur150)],
     [series |-> EmptyHist, hist |-> EmptyHist, cur |-> Rows(Cur150)],
     [series |-> Rows(CloseA), hist |-> Rows(CloseA), cur |-> Throw],
     [series |-> Rows(CloseA), hist |-> Rows(CloseA), cur |-> EmptyHist],
     [series |-> Rows(CloseA), hist |-> Rows(CloseA), cur |-> Rows(Cur150)],
     [series |-> Rows(CloseA), hist |-> Rows(CloseA), cur |-> Rows(Cur110)],
     [series |-> Rows(CloseB), hist |-> Rows(CloseB), cur |-> Rows(Cur110)]}

TablePageLoad ==
    /\ ~loaded
    /\ update_portfolio(None, None, None, None, TableFeeds)

TableAddStock ==
    /\ loaded
    /\ Len(store) < MaxTableHoldings
    /\ \E s \in {Some(10), Some(0 - 10)} :
          update_portfolio(NextClick, Some(Aapl), s, Some(Day0), TableFeeds)

NextTable == TablePageLoad \/ TableAddStock

SpecTable == Init /\ [][NextTable]_vars

(***************************************************************************)
(* Properties.  The expected values are stated here on their own terms     *)
(* (what "uppercased", "filled" and "summed" mean), not through the        *)
(* operators that model the code.                                          *)
(***************************************************************************)
\* u is t with every lower-case letter replaced by its capital.
IsUpperOf(u, t) ==
    /\ Len(u) = Len(t)
    /\ \A i \in DOMAIN t :
          \/ t[i] \notin Range(LowerChars) /\ u[i] = t[i]
          \/ \E k \in DOMAIN LowerChars : t[i] = LowerChars[k] /\ u[i] = UpperChars[k]

\* The last invocation was a click on the button.
Clicked == loaded /\ n_clicks # None /\ n_clicks[1] >= 1
TickerGiven == ticker # None /\ Len(ticker[1]) > 0
DateGiven == date # None /\ date[1] # ""

\* The list is the received list plus one record made of the inputs.
Appended ==
    /\ Len(store) = Len(before) + 1
    /\ SubSeq(store, 1, Len(before)) = before
    /\ IsUpperOf(store[Len(store)].Ticker, ticker[1])
    /\ store[Len(store)].Shares = shares[1]
    /\ store[Len(store)].PurchaseDate = date[1]

\* C1 as stated: a click with ticker, shares and date all present and
\* non-empty/non-null returns the received list with the record {uppercased
\* ticker, shares, date} appended, the earlier elements unchanged and in order.
C1_AsStated ==
    (Clicked /\ TickerGiven /\ shares # None /\ DateGiven) => Appended

\* C1 as amended: the same, for a shares value that is present and not zero
\* (a zero share count is falsy and counts as a missing field).
C1_AppendsOne ==
    (Clicked /\ TickerGiven /\ shares # None /\ shares[1] # 0 /\ DateGiven) => Appended

\* C1's case: a complete submit of a ticker the list already holds.
C1_Witness ==
    /\ Clicked /\ TickerGiven /\ shares # None /\ shares[1] # 0 /\ DateGiven
    /\ \E i \in DOMAIN before : IsUpperOf(before[i].Ticker, ticker[1])
    /\ Appended

\* C2: a click with at least one of ticker, shares, date empty or null returns
\* the received list unchanged, whatever the other fields hold.
C2_IncompleteIsNoOp ==
    (Clicked /\ (~TickerGiven \/ shares = None \/ ~DateGiven)) => store = before

\* C2's case: only the date is missing and the list is not empty.
C2_Witness ==
    /\ Clicked /\ TickerGiven /\ shares # None /\ shares[1] # 0 /\ ~DateGiven
    /\ before # <<>>
    /\ store = before

\* C9 as stated: no share-positivity validation; a click with a non-empty
\* ticker, a non-empty date and any present shares number (positive, zero or
\* negative) appends the record.
C9_AsStated ==
    (Clicked /\ TickerGiven /\ DateGiven /\ shares # None)
        => (store # before /\ store[Len(store)].Shares = shares[1])

\* C9 as amended: any present shares number other than zero, positive or
\* negative, is appended; zero is treated as a missing field.
C9_NonZeroShares ==
    (Clicked /\ TickerGiven /\ DateGiven /\ shares # None /\ shares[1] # 0)
        => (store # before /\ store[Len(store)].Shares = shares[1])

\* C9's case: a negative share count was appended.
C9_Witness ==
    /\ Clicked /\ TickerGiven /\ DateGiven /\ shares # None /\ shares[1] < 0
    /\ Len(store) = Len(before) + 1
    /\ store[Len(store)].Shares < 0

\* C10: over every invocation the list only grows by appending: the list
\* before is a prefix of the list after, at most one longer, and what the
\* invocation received is the stored list.
C10_AppendOnly ==
    [][/\ Len(store) <= Len(store')
       /\ Len(store') <= Len(store) + 1
       /\ SubSeq(store', 1, Len(store)) = store
       /\ before' = store]_vars

\* C10's case: an incomplete submit on a non-empty list during which the
\* provider failed for some holding.
C10_Witness ==
    /\ Clicked
    /\ store # <<>>
    /\ store = before
    /\ Len(table) < Len(store)

(***************************************************************************)
(* The time series                                                         *)
(***************************************************************************)
\* The history fetch of holding i for the chart gave at least one row.
SeriesFetched(i) ==
    feed[i].series.kind = "rows" /\ DOMAIN feed[i].series.close # {}

\* Shares times the most recent price of holding i on or before day d, zero
\* when it has none yet.
FilledValue(i, d) ==
    LET close == feed[i].series.close
        seen == {e \in DOMAIN close : e <= d}
    IN  IF seen = {} THEN 0 ELSE store[i].Shares * close[Max(seen)]

RECURSIVE FilledTotal(_, _)
\* The sum of the filled values of holdings 1..n on day d.
FilledTotal(n, d) ==
    IF n = 0 THEN 0 ELSE FilledTotal(n - 1, d) + FilledValue(n, d)

\* The Total column of the returned frame.
TotalColumn == data.values[Len(data.values)]

\* C3: when every holding's fetch succeeds with a non-empty history, the date
\* axis is the union of all holdings' dates and Total on every date is the sum
\* over all holdings of the forward-filled (zero before the first quote)
\* per-holding values.
C3_TotalSumsAllHoldings ==
    (loaded /\ store # <<>> /\ \A i \in DOMAIN store : SeriesFetched(i))
        => /\ data.index = UNION {DOMAIN feed[i].series.close : i \in DOMAIN store}
           /\ \A d \in data.index : TotalColumn[d] = FilledTotal(Len(store), d)

\* C3 restricted to lists of at most two holdings.
C3_UpToTwoHoldings ==
    (Len(store) <= 2) => C3_TotalSumsAllHoldings

\* C6: with no holdings, or with every holding's fetch failing (raising or
\* answering an empty history, in any mix), the returned series is empty and
\* the figure is the titled chart without data.
C6_EmptySeries ==
    (loaded /\ \A i \in DOMAIN store : ~SeriesFetched(i))
        => /\ data.index = {}
           /\ fig = [title |-> "No stocks in portfolio yet.", x |-> {}, y |-> NoRows]

\* C6's case: two or more holdings, one fetch raising and one answering empty.
C6_Witness ==
    /\ loaded
    /\ Len(store) >= 2
    /\ \A i \in DOMAIN store : ~SeriesFetched(i)
    /\ \E i, j \in DOMAIN store :
          feed[i].series.kind = "throw" /\ feed[j].series.kind = "empty"
    /\ fig.title = "No stocks in portfolio yet."

(***************************************************************************)
(* The table and the summary                                               *)
(***************************************************************************)
RECURSIVE Ascending(_)
\* The members of a set of numbers in increasing order.
Ascending(S) ==
    IF S = {} THEN <<>> ELSE Append(Ascending(S \ {Max(S)}), Max(S))

HasRows(h) == h.kind = "rows" /\ DOMAIN h.close # {}

\* Row `row` is the snapshot of holding i alone.
SnapshotOf(row, i) ==
    /\ row.Ticker = store[i].Ticker
    /\ row.Shares = store[i].Shares
    /\ row.PurchaseDate = store[i].PurchaseDate
    /\ row.PurchasePrice = Round2(feed[i].hist.close[Min(DOMAIN feed[i].hist.close)])
    /\ row.CurrentPrice = Round2(feed[i].cur.close[Max(DOMAIN feed[i].cur.close)])

RECURSIVE RowsValue(_)
RowsValue(rows) ==
    IF rows = <<>> THEN 0
    ELSE RowsValue(SubSeq(rows, 1, Len(rows) - 1)) + rows[Len(rows)].CurrentValue

RECURSIVE RowsInvested(_)
RowsInvested(rows) ==
    IF rows = <<>> THEN 0
    ELSE RowsInvested(SubSeq(rows, 1, Len(rows) - 1))
            + rows[Len(rows)].PurchasePrice * rows[Len(rows)].Shares

\* gain / invested * 100 to two decimals when invested > 0, else 0.
ExpectedPercent(gain, invested) ==
    IF invested > 0
    THEN LET h == RoundDiv(Abs(gain) * 10000, invested)
         IN  (IF gain < 0 THEN "-" ELSE "") \o ToString(h \div 100) \o "." \o Pad2(h % 100)
    ELSE "0.00"

\* The summary line of a non-empty list of snapshots.
ExpectedLine(rows) ==
    LET totalValue == RowsValue(rows)
        totalInvested == RowsInvested(rows)
        totalGain == totalValue - totalInvested
    IN  "Total Portfolio Value: $" \o Money(totalValue)
            \o " | Total Gain/Loss: $" \o Money(totalGain)
            \o " (" \o ExpectedPercent(totalGain, totalInvested) \o "%)"

\* The table holds, in holdings order, exactly the snapshots of the holdings
\* in `kept`, and the summary is computed from those rows.
TableIsExactly(kept) ==
    LET K == Ascending(kept)
    IN  /\ Len(table) = Len(K)
        /\ \A k \in DOMAIN K : SnapshotOf(table[k], K[k])
        /\ stats = IF K = <<>> THEN "No portfolio data yet." ELSE ExpectedLine(table)

\* C4 as stated: one snapshot, in holdings order, for each holding whose
\* historical fetch returns at least one row and whose fetches do not throw,
\* none for the others, and totals from the returned snapshots only.
C4_AsStated ==
    loaded =>
        TableIsExactly({i \in DOMAIN store :
            HasRows(feed[i].hist) /\ feed[i].cur.kind # "throw"})

\* C4 as amended: one snapshot for each holding whose historical fetch and
\* whose one-day fetch both return at least one row without throwing, none for
\* the others (a one-day fetch that answers empty drops the holding as well).
C4_SnapshotsOfFetched ==
    loaded =>
        TableIsExactly({i \in DOMAIN store :
            HasRows(feed[i].hist) /\ HasRows(feed[i].cur)})

\* C4's case: the first holding's fetch throws and the second succeeds.
C4_Witness ==
    /\ loaded
    /\ Len(store) = 2
    /\ feed[1].hist.kind = "throw"
    /\ HasRows(feed[2].hist) /\ HasRows(feed[2].cur)
    /\ Len(table) = 1
    /\ table[1].Shares = store[2].Shares

\* C5 as stated: CurrentValue and GainLoss are derived from the prices already
\* rounded to 2 decimals.
C5_AsStated ==
    \A k \in DOMAIN table :
        /\ table[k].CurrentValue = table[k].Shares * table[k].CurrentPrice
        /\ table[k].GainLoss =
              (table[k].CurrentPrice - table[k].PurchasePrice) * table[k].Shares

\* C5 as amended: the four figures are each rounded to 2 decimals from the
\* full-precision prices: CurrentValue is round(shares * current price) and
\* GainLoss is round((current price - purchase price) * shares).
C5_RoundedFromFullPrecision ==
    loaded =>
        LET K == Ascending({i \in DOMAIN store :
                    HasRows(feed[i].hist) /\ HasRows(feed[i].cur)})
        IN  /\ Len(table) = Len(K)
            /\ \A k \in DOMAIN K :
                  LET sh == store[K[k]].Shares
                      p == feed[K[k]].hist.close[Min(DOMAIN feed[K[k]].hist.close)]
                      c == feed[K[k]].cur.close[Max(DOMAIN feed[K[k]].cur.close)]
                  IN  /\ table[k].PurchasePrice = Round2(p)
                      /\ table[k].CurrentPrice = Round2(c)
                      /\ table[k].CurrentValue = Round2(sh * c)
                      /\ table[k].GainLoss = Round2((c - p) * sh)

\* C5's case: purchase price 100.005 and current price 110.004, where the
\* figures derived from rounded prices differ from the ones in the row.
C5_Witness ==
    /\ loaded
    /\ \E k \in DOMAIN table :
          /\ table[k].PurchasePrice = 10000
          /\ table[k].CurrentPrice = 11000
          /\ table[k].CurrentValue # table[k].Shares * table[k].CurrentPrice

\* C7: the summary is the literal no-data indicator exactly when the snapshot
\* list is empty, and the numeric summary line for every non-empty list.
C7_NoDataIffEmpty ==
    loaded =>
        /\ (stats = "No portfolio data yet.") <=> (table = <<>>)
        /\ table # <<>> => stats = ExpectedLine(table)

\* C7's case: holdings exist and the snapshot list is empty.
C7_Witness ==
    /\ loaded
    /\ store # <<>>
    /\ table = <<>>
    /\ stats = "No portfolio data yet."

\* The end-to-end scenario: {AAPL, 10 shares, 2023-01-03}, purchase price
\* 125.00 and current price 150.00.
Scenario ==
    /\ loaded
    /\ store = <<[Ticker |-> AAPL, Shares |-> 10, PurchaseDate |-> "2023-01-03"]>>
    /\ HasRows(feed[1].hist) /\ feed[1].hist.close[Min(DOMAIN feed[1].hist.close)] = 125000
    /\ HasRows(feed[1].cur) /\ feed[1].cur.close[Max(DOMAIN feed[1].cur.close)] = 150000

\* C8: for a non-empty snapshot list the summary is sum(CurrentValue),
\* sum(rounded PurchasePrice * Shares), their difference and the percentage
\* (0 when the invested basis is not positive); the scenario yields
\* CurrentValue 1500.00, GainLoss 250.00 and the stated line.
C8_Summary ==
    /\ (loaded /\ table # <<>>) => stats = ExpectedLine(table)
    /\ Scenario =>
          /\ Len(table) = 1
          /\ table[1].CurrentValue = 150000
          /\ table[1].GainLoss = 25000
          /\ stats = "Total Portfolio Value: $1,500.00 | Total Gain/Loss: $250.00 (20.00%)"

\* C8's case: the scenario, rendered.
C8_Witness ==
    /\ Scenario
    /\ stats = "Total Portfolio Value: $1,500.00 | Total Gain/Loss: $250.00 (20.00%)"

\* A summary over an invested basis that is not positive.
C8_NonPositiveBasis ==
    /\ loaded
    /\ table # <<>>
    /\ RowsInvested(table) <= 0

====
